---- MODULE Spec2Model ----
(***************************************************************************)
(* The Lag-Llama sample notebook (lag-llama.ipynb) as a state machine.     *)
(*                                                                         *)
(* The state is the kernel's namespace: the names the code cells bind      *)
(* (dataset, estimator, predictor, forecast_it, ts_it, forecasts, tss,     *)
(* evaluator, agg_metrics), what the cells printed and plotted, and pc,    *)
(* the next code cell in document order.  There is one action per code     *)
(* cell that binds or reads one of these names.                            *)
(*                                                                         *)
(* The forecasting and evaluation libraries (gluonts, lag_llama) are not   *)
(* part of the notebook.  The model keeps them opaque: a library call is   *)
(* modelled by what the notebook hands it and binds from it, and every     *)
(* value the library alone decides (the size of the dataset, the score,    *)
(* how far the evaluator reads its two iterators, whether it raises) is    *)
(* a nondeterministic choice.                                              *)
(***************************************************************************)
EXTENDS Integers, Sequences, FiniteSets, TLC

\* ------------------------------------------------------------- bounds

\* The number of series of dataset.test is at most MaxSeries.
MaxSeries == 4

\* dataset.metadata.prediction_length is at most MaxPredLen.
MaxPredLen == 2

\* The evaluator's score is one of 0..MaxScore (it stands for a float).
MaxScore == 1

\* ---------------------------------------------------- program constants

\* islice(enumerate(zip(forecasts, tss)), 9)
PlotCount == 9

\* context_length=32 of both LagLlamaEstimator calls
LagLlamaContextLength == 32

\* context_length=100 of the SimpleFeedForwardEstimator call
BaselineContextLength == 100

\* num_samples=100 of the baseline make_evaluation_predictions call
BaselineNumSamples == 100

\* num_parallel_samples=20 of the fine-tuning LagLlamaEstimator call
FineTuneNumParallelSamples == 20

\* num_samples=20 of the fine-tuned make_evaluation_predictions call
FineTuneNumSamples == 20

\* The three stages, numbered in document order.
ZeroShot == 1
Baseline == 2
FineTuned == 3

VARIABLES
    pc,           \* the next code cell, in document order
    dataset,      \* get_dataset("electricity")
    ckpt,         \* TRUE once torch.load has bound ckpt and estimator_args
    estimator,    \* the estimator last constructed
    predictor,    \* the predictor last created or trained
    forecast_it,  \* the forecast generator of make_evaluation_predictions
    ts_it,        \* the ground-truth generator of make_evaluation_predictions
    forecasts,    \* the name forecasts
    tss,          \* the name tss
    evaluator,    \* the name evaluator, and what the last call did
    agg_metrics,  \* the name agg_metrics
    printed,      \* the "CRPS:" lines printed so far
    plotted,      \* the (forecast, ts) pairs the last plotting cell drew
    trained       \* the stages whose estimator.train(dataset.train) has run

vars == <<pc, dataset, ckpt, estimator, predictor, forecast_it, ts_it,
          forecasts, tss, evaluator, agg_metrics, printed, plotted, trained>>

\* ------------------------------------------------------ python values

Min(a, b) == IF a < b THEN a ELSE b

\* A name no cell has bound yet.
Unbound == [kind |-> "unbound", items |-> <<>>]

\* A generator that has produced its first pos items.
Generator(items) == [items |-> items, pos |-> 0]

\* What an iterator has still to yield.
Remaining(it) == SubSeq(it.items, it.pos + 1, Len(it.items))

\* next() called k times (an exhausted iterator stays exhausted).
Advance(it, k) == [it EXCEPT !.pos = Min(Len(it.items), it.pos + k)]

\* What `x = gen` binds in place of `x = list(gen)`: the generator object
\* itself, nothing read from it.
AliasOf(gen) == [kind |-> "gen", items |-> <<>>]

\* list(gen): a new list holding everything gen still yields.
List(gen) == [kind |-> "list", items |-> Remaining(gen)]

\* The generator after list(gen), or after binding it without reading it.
AfterList(bound, gen) ==
    IF bound.kind = "list" THEN Advance(gen, Len(gen.items)) ELSE gen

\* What iterating the value of a name yields now: a list's items, or what
\* the generator it names has left.
Contents(bound, gen) ==
    IF bound.kind = "list" THEN bound.items
    ELSE IF bound.kind = "gen" THEN Remaining(gen)
    ELSE <<>>

\* iter(x): a fresh iterator over a list, the generator itself otherwise.
Iter(bound, gen) ==
    IF bound.kind = "list" THEN Generator(bound.items)
    ELSE IF bound.kind = "gen" THEN gen
    ELSE Generator(<<>>)

\* The generator a name's value shares with the iterator made from it:
\* reading iter(x) k times reads the generator only when x is that generator.
AfterIter(bound, gen, k) ==
    IF bound.kind = "gen" THEN Advance(gen, k) ELSE gen

\* zip(a, b) over two sequences, cut to the first n pairs.
Zip(a, b, n) ==
    [i \in 1..Min(n, Min(Len(a), Len(b))) |-> <<a[i], b[i]>>]

\* ----------------------------------------------------- library calls

\* A LagLlamaEstimator call that passes num_parallel_samples=20 whatever the
\* cell: the fine-tuning cell's keyword copied into the zero-shot cell.
LagLlamaEstimatorTwentySamples(prediction_length, num_parallel_samples) ==
    [kind |-> "LagLlamaEstimator",
     prediction_length |-> prediction_length,
     context_length |-> LagLlamaContextLength,
     num_parallel_samples |-> {FineTuneNumParallelSamples}]

\* LagLlamaEstimator(ckpt_path=..., prediction_length=..., context_length=32,
\* ...): num_parallel_samples is the set of values the call passes for it.
LagLlamaEstimator(prediction_length, num_parallel_samples) ==
    [kind |-> "LagLlamaEstimator",
     prediction_length |-> prediction_length,
     context_length |-> LagLlamaContextLength,
     num_parallel_samples |-> num_parallel_samples]

\* A baseline estimator whose horizon is written out as a number (24, the
\* hourly day) where the notebook passes dataset.metadata.prediction_length.
SimpleFeedForwardEstimatorFixedHorizon(prediction_length) ==
    [kind |-> "SimpleFeedForwardEstimator",
     prediction_length |-> 24,
     context_length |-> BaselineContextLength,
     num_parallel_samples |-> {}]

\* SimpleFeedForwardEstimator(num_hidden_dimensions=[10],
\* prediction_length=..., context_length=100, trainer=...)
SimpleFeedForwardEstimator(prediction_length) ==
    [kind |-> "SimpleFeedForwardEstimator",
     prediction_length |-> prediction_length,
     context_length |-> BaselineContextLength,
     num_parallel_samples |-> {}]

\* The predictor an estimator yields: estimator.create_predictor(...) leaves
\* it as the checkpoint made it, estimator.train(dataset.train) trains it.
Predictor(est, isTrained) ==
    [kind |-> est.kind,
     prediction_length |-> est.prediction_length,
     num_parallel_samples |-> est.num_parallel_samples,
     trained |-> isTrained]

\* The split of dataset a stage's make_evaluation_predictions call is given:
\* dataset=dataset.test in all three.
EvaluationSplit(call) == "test"

\* make_evaluation_predictions(dataset=dataset.test, predictor=predictor
\* [, num_samples=...]): two generators over the series of dataset.test, in
\* the order of dataset.test.  call is the stage whose cell makes the call.
MakeEvaluationPredictions(call, ds, pred, num_samples) ==
    [forecast_it |->
        Generator([i \in 1..ds.test |->
            [call |-> call, item |-> i, predictor |-> pred,
             num_samples |-> num_samples,
             split |-> EvaluationSplit(call)]]),
     ts_it |->
        Generator([i \in 1..ds.test |->
            [call |-> call, item |-> i, split |-> EvaluationSplit(call)]])]

\* An evaluator constructed with keyword arguments in one stage only, where
\* the notebook's three cells all write Evaluator().
EvaluatorArgsInOneStage(call) ==
    IF call = FineTuned THEN {"quantiles"} ELSE {}

\* The keyword arguments a stage's cell passes to Evaluator(...): none, in
\* all three.
EvaluatorArgs(call) == {}

\* The key of agg_metrics a stage's cell prints.
MetricKey(call) == "mean_wQuantileLoss"

\* The series a sequence of forecasts is over, each with its split.
SeriesOf(seq) == {<<seq[i].split, seq[i].item>> : i \in 1..Len(seq)}

\* evaluator = Evaluator(); agg_metrics, ts_metrics = evaluator(iter(tss),
\* iter(forecasts)); print("CRPS:", agg_metrics['mean_wQuantileLoss']).
\* The library reads the first kt items of the one iterator and the first kf
\* of the other, then returns a score or raises; a raise leaves agg_metrics
\* as it was and prints nothing.  A printed line is kept with what its score
\* is a score of: the evaluator's arguments and the series of the forecasts.
EvaluatorCell(call, next) ==
    /\ \E kt \in 0..Len(Contents(tss, ts_it)),
          kf \in 0..Len(Contents(forecasts, forecast_it)),
          raised \in BOOLEAN,
          score \in 0..MaxScore :
        /\ evaluator' =
              [call |-> call,
               args |-> EvaluatorArgs(call),
               ts_iterator |-> Advance(Iter(tss, ts_it), kt),
               fcst_iterator |-> Advance(Iter(forecasts, forecast_it), kf),
               raised |-> raised]
        /\ ts_it' = AfterIter(tss, ts_it, kt)
        /\ forecast_it' = AfterIter(forecasts, forecast_it, kf)
        /\ IF raised
           THEN UNCHANGED <<agg_metrics, printed>>
           ELSE /\ agg_metrics' =
                      [call |-> call, mean_wQuantileLoss |-> score]
                /\ printed' = Append(printed,
                      [call |-> call, label |-> "CRPS:",
                       key |-> MetricKey(call), value |-> score,
                       args |-> EvaluatorArgs(call),
                       series |->
                          SeriesOf(Contents(forecasts, forecast_it))])
    /\ pc' = next
    /\ UNCHANGED <<dataset, ckpt, estimator, predictor, forecasts, tss,
                   plotted, trained>>

\* for idx, (forecast, ts) in islice(enumerate(zip(forecasts, tss)), 9):
\* the first nine pairs are drawn.  zip reads forecasts first, so when tss
\* runs out before the ninth pair one more forecast has been read.
PlotCell(next) ==
    /\ LET f == Contents(forecasts, forecast_it)
           t == Contents(tss, ts_it)
           pairs == Zip(f, t, PlotCount)
           np == Len(pairs)
       IN /\ plotted' = pairs
          /\ forecast_it' = AfterIter(forecasts, forecast_it,
                IF np < PlotCount /\ Len(f) > np THEN np + 1 ELSE np)
          /\ ts_it' = AfterIter(tss, ts_it, np)
    /\ pc' = next
    /\ UNCHANGED <<dataset, ckpt, estimator, predictor, forecasts, tss,
                   evaluator, agg_metrics, printed, trained>>

\* ------------------------------------------------------------- cells

Init ==
    /\ pc = "get_dataset"
    /\ dataset = [test |-> 0, prediction_length |-> 0]
    /\ ckpt = FALSE
    /\ estimator = [kind |-> "unbound"]
    /\ predictor = [kind |-> "unbound"]
    /\ forecast_it = Generator(<<>>)
    /\ ts_it = Generator(<<>>)
    /\ forecasts = Unbound
    /\ tss = Unbound
    /\ evaluator = [call |-> 0]
    /\ agg_metrics = [call |-> 0]
    /\ printed = <<>>
    /\ plotted = <<>>
    /\ trained = {}

\* dataset = get_dataset("electricity"): test is the number of series of
\* dataset.test, prediction_length is dataset.metadata.prediction_length.
GetDataset ==
    /\ pc = "get_dataset"
    /\ \E n \in 1..MaxSeries, h \in 1..MaxPredLen :
          dataset' = [test |-> n, prediction_length |-> h]
    /\ pc' = "load_ckpt"
    /\ UNCHANGED <<ckpt, estimator, predictor, forecast_it, ts_it, forecasts,
                   tss, evaluator, agg_metrics, printed, plotted, trained>>

\* ckpt = torch.load("lag-llama.ckpt", ...); estimator_args = ckpt[...]
LoadCkpt ==
    /\ pc = "load_ckpt"
    /\ ckpt' = TRUE
    /\ pc' = "zero_shot_estimator"
    /\ UNCHANGED <<dataset, estimator, predictor, forecast_it, ts_it,
                   forecasts, tss, evaluator, agg_metrics, printed, plotted,
                   trained>>

\* The zero-shot cell with predictor = estimator.train(dataset.train) in
\* place of estimator.create_predictor(...), as the other two stages get
\* their predictor.
ZeroShotEstimatorTrained ==
    /\ pc = "zero_shot_estimator"
    /\ ckpt
    /\ estimator' = LagLlamaEstimator(dataset.prediction_length, {})
    /\ predictor' = Predictor(estimator', TRUE)
    /\ trained' = trained \cup {ZeroShot}
    /\ pc' = "zero_shot_predictions"
    /\ UNCHANGED <<dataset, ckpt, forecast_it, ts_it, forecasts, tss,
                   evaluator, agg_metrics, printed, plotted>>

\* estimator = LagLlamaEstimator(...); predictor = estimator.create_predictor(
\* estimator.create_transformation(), estimator.create_lightning_module())
ZeroShotEstimator ==
    /\ pc = "zero_shot_estimator"
    /\ ckpt
    /\ estimator' = LagLlamaEstimator(dataset.prediction_length, {})
    /\ predictor' = Predictor(estimator', FALSE)
    /\ pc' = "zero_shot_predictions"
    /\ UNCHANGED <<dataset, ckpt, forecast_it, ts_it, forecasts, tss,
                   evaluator, agg_metrics, printed, plotted, trained>>

\* forecast_it, ts_it = make_evaluation_predictions(dataset=dataset.test,
\* predictor=predictor)
ZeroShotPredictions ==
    /\ pc = "zero_shot_predictions"
    /\ LET r == MakeEvaluationPredictions(ZeroShot, dataset, predictor, {})
       IN /\ forecast_it' = r.forecast_it
          /\ ts_it' = r.ts_it
    /\ pc' = "zero_shot_lists"
    /\ UNCHANGED <<dataset, ckpt, estimator, predictor, forecasts, tss,
                   evaluator, agg_metrics, printed, plotted, trained>>

\* forecasts = list(forecast_it); tss = list(ts_it)
ZeroShotLists ==
    /\ pc = "zero_shot_lists"
    /\ forecasts' = List(forecast_it)
    /\ forecast_it' = AfterList(forecasts', forecast_it)
    /\ tss' = List(ts_it)
    /\ ts_it' = AfterList(tss', ts_it)
    /\ pc' = "zero_shot_evaluate"
    /\ UNCHANGED <<dataset, ckpt, estimator, predictor, evaluator,
                   agg_metrics, printed, plotted, trained>>

ZeroShotEvaluate ==
    /\ pc = "zero_shot_evaluate"
    /\ EvaluatorCell(ZeroShot, "zero_shot_plot")

ZeroShotPlot ==
    /\ pc = "zero_shot_plot"
    /\ PlotCell("baseline")

\* estimator = SimpleFeedForwardEstimator(...); predictor = estimator.train(
\* dataset.train); forecast_it, ts_it = make_evaluation_predictions(
\* dataset=dataset.test, predictor=predictor, num_samples=100);
\* forecasts = list(forecast_it); tss = list(ts_it)
BaselineCell ==
    /\ pc = "baseline"
    /\ estimator' = SimpleFeedForwardEstimator(dataset.prediction_length)
    /\ predictor' = Predictor(estimator', TRUE)
    /\ trained' = trained \cup {Baseline}
    /\ LET r == MakeEvaluationPredictions(Baseline, dataset, predictor',
                                          {BaselineNumSamples})
       IN /\ forecasts' = List(r.forecast_it)
          /\ forecast_it' = AfterList(forecasts', r.forecast_it)
          /\ tss' = List(r.ts_it)
          /\ ts_it' = AfterList(tss', r.ts_it)
    /\ pc' = "baseline_entry"
    /\ UNCHANGED <<dataset, ckpt, evaluator, agg_metrics, printed, plotted>>

\* forecast_entry = forecasts[0] and the prints of its fields: the cell
\* needs forecasts to be a list with a first element.
BaselineEntry ==
    /\ pc = "baseline_entry"
    /\ forecasts.kind = "list"
    /\ Len(forecasts.items) >= 1
    /\ pc' = "baseline_evaluate"
    /\ UNCHANGED <<dataset, ckpt, estimator, predictor, forecast_it, ts_it,
                   forecasts, tss, evaluator, agg_metrics, printed, plotted,
                   trained>>

BaselineEvaluate ==
    /\ pc = "baseline_evaluate"
    /\ EvaluatorCell(Baseline, "fine_tune_estimator")

\* ckpt = torch.load(...); estimator = LagLlamaEstimator(...,
\* num_parallel_samples=20, trainer_kwargs = {"max_epochs": 50,})
FineTuneEstimator ==
    /\ pc = "fine_tune_estimator"
    /\ ckpt' = TRUE
    /\ estimator' = LagLlamaEstimator(dataset.prediction_length,
                                      {FineTuneNumParallelSamples})
    /\ pc' = "fine_tune_train"
    /\ UNCHANGED <<dataset, predictor, forecast_it, ts_it, forecasts, tss,
                   evaluator, agg_metrics, printed, plotted, trained>>

\* predictor = estimator.train(dataset.train, cache_data=True,
\* shuffle_buffer_length=1000)
FineTuneTrain ==
    /\ pc = "fine_tune_train"
    /\ predictor' = Predictor(estimator, TRUE)
    /\ trained' = trained \cup {FineTuned}
    /\ pc' = "fine_tune_predictions"
    /\ UNCHANGED <<dataset, ckpt, estimator, forecast_it, ts_it, forecasts,
                   tss, evaluator, agg_metrics, printed, plotted>>

\* forecast_it, ts_it = make_evaluation_predictions(dataset=dataset.test,
\* predictor=predictor, num_samples=20)
FineTunePredictions ==
    /\ pc = "fine_tune_predictions"
    /\ LET r == MakeEvaluationPredictions(FineTuned, dataset, predictor,
                                          {FineTuneNumSamples})
       IN /\ forecast_it' = r.forecast_it
          /\ ts_it' = r.ts_it
    /\ pc' = "fine_tune_forecasts"
    /\ UNCHANGED <<dataset, ckpt, estimator, predictor, forecasts, tss,
                   evaluator, agg_metrics, printed, plotted, trained>>

\* forecasts = list(tqdm(forecast_it, total=len(dataset), ...))
FineTuneForecasts ==
    /\ pc = "fine_tune_forecasts"
    /\ forecasts' = List(forecast_it)
    /\ forecast_it' = AfterList(forecasts', forecast_it)
    /\ pc' = "fine_tune_tss"
    /\ UNCHANGED <<dataset, ckpt, estimator, predictor, ts_it, tss,
                   evaluator, agg_metrics, printed, plotted, trained>>

\* The fine-tuned stage without its tss cell: tss is left as the baseline
\* stage bound it.
FineTuneTssSkipped ==
    /\ pc = "fine_tune_tss"
    /\ pc' = "fine_tune_plot"
    /\ UNCHANGED <<dataset, ckpt, estimator, predictor, forecast_it, ts_it,
                   forecasts, tss, evaluator, agg_metrics, printed, plotted,
                   trained>>

\* tss = list(tqdm(ts_it, total=len(dataset), ...))
FineTuneTss ==
    /\ pc = "fine_tune_tss"
    /\ tss' = List(ts_it)
    /\ ts_it' = AfterList(tss', ts_it)
    /\ pc' = "fine_tune_plot"
    /\ UNCHANGED <<dataset, ckpt, estimator, predictor, forecast_it,
                   forecasts, evaluator, agg_metrics, printed, plotted,
                   trained>>

FineTunePlot ==
    /\ pc = "fine_tune_plot"
    /\ PlotCell("fine_tune_evaluate")

FineTuneEvaluate ==
    /\ pc = "fine_tune_evaluate"
    /\ EvaluatorCell(FineTuned, "done")

Next ==
    \/ GetDataset
    \/ LoadCkpt
    \/ ZeroShotEstimator
    \/ ZeroShotPredictions
    \/ ZeroShotLists
    \/ ZeroShotEvaluate
    \/ ZeroShotPlot
    \/ BaselineCell
    \/ BaselineEntry
    \/ BaselineEvaluate
    \/ FineTuneEstimator
    \/ FineTuneTrain
    \/ FineTunePredictions
    \/ FineTuneForecasts
    \/ FineTuneTss
    \/ FineTunePlot
    \/ FineTuneEvaluate

Spec == Init /\ [][Next]_vars

\* ------------------------------------------------------------ claims

\* What list(...) of a generator of make_evaluation_predictions call `call`
\* holds: one item per series of dataset.test, in the order of dataset.test.
Complete(seq, call) ==
    /\ Len(seq) = dataset.test
    /\ \A i \in 1..Len(seq) : seq[i].item = i /\ seq[i].call = call

\* The cells between a stage's evaluator call and the next cell that rebinds
\* forecasts or tss.
AfterEvaluate(call) ==
    IF call = ZeroShot THEN {"zero_shot_plot", "baseline"}
    ELSE IF call = Baseline
    THEN {"fine_tune_estimator", "fine_tune_train", "fine_tune_predictions",
          "fine_tune_forecasts"}
    ELSE {"done"}

\* C10: the evaluator call has no effect on the lists it is given.  After the
\* evaluator cell of any stage, whether the call returned or raised and
\* however far the library read the two iterators iter(tss) and
\* iter(forecasts), forecasts and tss still hold every item of that stage's
\* make_evaluation_predictions call, in order; and the plotting cell that
\* follows the zero-shot evaluation draws the pairs of the complete lists.
C10_EvaluatorLeavesLists ==
    /\ \A call \in {ZeroShot, Baseline, FineTuned} :
          pc \in AfterEvaluate(call) =>
              /\ evaluator.call = call
              /\ Complete(Contents(forecasts, forecast_it), call)
              /\ Complete(Contents(tss, ts_it), call)
    /\ pc = "baseline" =>
          /\ Len(plotted) = Min(PlotCount, dataset.test)
          /\ \A i \in 1..Len(plotted) :
                /\ plotted[i][1].item = i /\ plotted[i][1].call = ZeroShot
                /\ plotted[i][2].item = i /\ plotted[i][2].call = ZeroShot

\* C10, its case: the zero-shot evaluator call raised after reading both
\* iterators to their ends, over a dataset of several series, and the
\* plotting cell has then drawn from forecasts and tss.
C10_Witness ==
    /\ pc = "baseline"
    /\ dataset.test >= 2
    /\ evaluator.call = ZeroShot
    /\ evaluator.raised
    /\ Remaining(evaluator.ts_iterator) = <<>>
    /\ Remaining(evaluator.fcst_iterator) = <<>>
    /\ Len(plotted) = dataset.test

\* C11: the evaluator is invoked identically in the three stages.  Any two
\* printed scores come from an evaluator constructed with the same arguments
\* (none: the library's default quantile levels and normalisation), are
\* printed from the same key of agg_metrics under the same label, and are
\* scores of forecasts over the same series: every series of dataset.test.
C11_SameInvocation ==
    \A i \in 1..Len(printed) :
        /\ printed[i].series = {<<"test", k>> : k \in 1..dataset.test}
        /\ \A j \in 1..Len(printed) :
              /\ printed[i].args = printed[j].args
              /\ printed[i].key = printed[j].key
              /\ printed[i].label = printed[j].label
              /\ printed[i].series = printed[j].series

\* C11, its case: all three stages have printed their score.
C11_Witness ==
    /\ pc = "done"
    /\ Len(printed) = 3
    /\ {printed[i].call : i \in 1..3} = {ZeroShot, Baseline, FineTuned}
    /\ dataset.test >= 2

\* The horizon of every forecast of seq is dataset.metadata.prediction_length
\* (a forecast's horizon is the prediction_length of the predictor that
\* made it).
HorizonIsCanonical(seq) ==
    \A i \in 1..Len(seq) :
        seq[i].predictor.prediction_length = dataset.prediction_length

\* C13: in every stage the forecast horizon is the dataset's canonical
\* prediction length.  Every estimator the notebook constructs, and every
\* predictor it creates or trains, has prediction_length equal to
\* dataset.metadata.prediction_length, and so has every forecast in
\* forecasts and every forecast handed to an evaluator call.
C13_HorizonIsCanonical ==
    /\ estimator.kind # "unbound" =>
          estimator.prediction_length = dataset.prediction_length
    /\ predictor.kind # "unbound" =>
          predictor.prediction_length = dataset.prediction_length
    /\ HorizonIsCanonical(Contents(forecasts, forecast_it))
    /\ HorizonIsCanonical(Remaining(forecast_it))
    /\ evaluator.call # 0 => HorizonIsCanonical(evaluator.fcst_iterator.items)

\* C13, its case: the third of the three estimators has been constructed and
\* trained, and forecasts made by its predictor have reached the evaluator,
\* over a dataset whose prediction length is not 1.
C13_Witness ==
    /\ pc = "done"
    /\ dataset.prediction_length >= 2
    /\ dataset.test >= 2
    /\ estimator.kind = "LagLlamaEstimator"
    /\ trained = {Baseline, FineTuned}
    /\ evaluator.call = FineTuned
    /\ Len(evaluator.fcst_iterator.items) = dataset.test
    /\ \A i \in 1..Len(evaluator.fcst_iterator.items) :
          evaluator.fcst_iterator.items[i].predictor = predictor

\* Every forecast the state holds: in forecasts, still to come from
\* forecast_it, or handed to the last evaluator call.
Held(seq) == {seq[i] : i \in 1..Len(seq)}

AllForecasts ==
    Held(Contents(forecasts, forecast_it))
        \cup Held(Remaining(forecast_it))
        \cup (IF evaluator.call # 0
              THEN Held(evaluator.fcst_iterator.items) ELSE {})

\* C14 as the spec states it: the zero-shot run is configured with 20
\* parallel samples and the baseline run with 100 samples.
C14_ZeroShotTwentySamples ==
    \A f \in AllForecasts :
        /\ f.call = ZeroShot =>
              f.predictor.num_parallel_samples = {FineTuneNumParallelSamples}
        /\ f.call = Baseline => f.num_samples = {BaselineNumSamples}

\* C14, amended: the sample counts the notebook passes differ between runs.
\* The baseline run passes num_samples=100; the fine-tuned run passes
\* num_parallel_samples=20 and num_samples=20; the zero-shot run passes no
\* sample count at all, neither num_parallel_samples to its estimator nor
\* num_samples to make_evaluation_predictions.
C14_SampleCounts ==
    /\ BaselineNumSamples # FineTuneNumSamples
    /\ \A f \in AllForecasts :
        /\ f.call = ZeroShot =>
              /\ f.predictor.num_parallel_samples = {}
              /\ f.num_samples = {}
        /\ f.call = Baseline =>
              /\ f.predictor.num_parallel_samples = {}
              /\ f.num_samples = {BaselineNumSamples}
        /\ f.call = FineTuned =>
              /\ f.predictor.num_parallel_samples =
                    {FineTuneNumParallelSamples}
              /\ f.num_samples = {FineTuneNumSamples}

\* C14, its case: the zero-shot forecasts have been scored and the baseline
\* forecasts have been made.
C14_Witness ==
    /\ pc = "baseline_evaluate"
    /\ evaluator.call = ZeroShot
    /\ \E f \in Held(evaluator.fcst_iterator.items) : f.call = ZeroShot
    /\ \E f \in Held(Contents(forecasts, forecast_it)) : f.call = Baseline

\* The last evaluator call was stage call's, on forecasts for every series
\* of dataset.test made by that stage's call, and unless it raised its score
\* is the last line printed.
Scored(call) ==
    /\ evaluator.call = call
    /\ Len(evaluator.fcst_iterator.items) = dataset.test
    /\ \A f \in Held(evaluator.fcst_iterator.items) : f.call = call
    /\ ~evaluator.raised =>
          /\ printed # <<>>
          /\ printed[Len(printed)].call = call

IsStagePredictor(pred, call) ==
    /\ pred.kind = IF call = Baseline THEN "SimpleFeedForwardEstimator"
                   ELSE "LagLlamaEstimator"
    /\ pred.trained = (call # ZeroShot)

\* f and t are the two lists of one make_evaluation_predictions call, that
\* of stage call: as long as each other and as dataset.test, the i-th of each
\* for the i-th series, the forecasts made by the stage's predictor.
PairedFrom(f, t, call) ==
    /\ Len(f) = Len(t)
    /\ Len(f) = dataset.test
    /\ \A i \in 1..Len(f) :
          /\ f[i].call = call /\ t[i].call = call
          /\ f[i].item = i /\ t[i].item = i
          /\ IsStagePredictor(f[i].predictor, call)

\* The evaluator cell that is next, if one is.
EvaluateNext ==
    IF pc = "zero_shot_evaluate" THEN {ZeroShot}
    ELSE IF pc = "baseline_evaluate" THEN {Baseline}
    ELSE IF pc = "fine_tune_evaluate" THEN {FineTuned}
    ELSE {}

\* C16: no score is computed from a stale or mixed-stage pairing.  When an
\* evaluator cell is about to run, forecasts and tss are the two lists of
\* its own stage's make_evaluation_predictions call, made with the predictor
\* that is bound then; and what every evaluator call was handed are two such
\* lists, of equal length and in the same series order.
C16_PairsFromOneCall ==
    /\ \A call \in EvaluateNext :
          /\ PairedFrom(Contents(forecasts, forecast_it),
                        Contents(tss, ts_it), call)
          /\ \A f \in Held(Contents(forecasts, forecast_it)) :
                f.predictor = predictor
    /\ evaluator.call # 0 =>
          PairedFrom(evaluator.fcst_iterator.items,
                     evaluator.ts_iterator.items, evaluator.call)

\* C16, its case: the names have been rebound twice and the third evaluator
\* call has been made, on the lists of the fine-tuned stage.
C16_Witness ==
    /\ pc = "done"
    /\ evaluator.call = FineTuned
    /\ ~evaluator.raised
    /\ dataset.test >= 2
    /\ Len(evaluator.ts_iterator.items) = dataset.test
    /\ forecasts.kind = "list" /\ tss.kind = "list"
    /\ forecasts.items = evaluator.fcst_iterator.items
    /\ tss.items = evaluator.ts_iterator.items

====
